---- MODULE Spec2Model ----
(***************************************************************************)
(* Verification model of the agent-backend template:                       *)
(*   - the authentication subsystem (services/auth.py, the three storage   *)
(*     backends, middleware/auth.py, routes/auth.py),                      *)
(*   - the artifact routes' authorization check (routes/artifacts.py),     *)
(*   - the tool registry (tools/registry.py), the proxy handlers           *)
(*     (tools/api_proxy.py, tools/fastmcp_proxy.py), the OpenAPI spec      *)
(*     loader and its cache (tools/spec_loader.py),                        *)
(*   - the selection of the ADK services (config/services.py,              *)
(*     services/service_factory.py).                                       *)
(* Seven specifications share the variables:                               *)
(*   Spec          the HTTP server: register, login, logout and /auth/me,  *)
(*                 handlers interleaved at the awaits that really suspend  *)
(*   SpecProtected the same server with time passing: token expiry and the *)
(*                 protected routes (/auth/me, the artifact routes)        *)
(*   SpecBackends  the three auth backends driven in lock step by the same *)
(*                 sequence of AuthService calls                           *)
(*   SpecRegistry  the ToolRegistry and requests routed by its router      *)
(*   SpecProxy     one proxy handler and the requests it forwards          *)
(*   SpecLoader    the SpecLoader cache with time passing                  *)
(*   SpecServices  start-up: get_services_config and create_all_services   *)
(***************************************************************************)
EXTENDS Integers, Sequences, FiniteSets, TLC

\* ------------------------------------------------------------------ bounds
MaxIds == 2          \* registrations that may be started in one run
MaxClock == 3        \* the clock stops here
TicksPerSec == 2     \* clock resolution: ticks per second
DaySecs == 1         \* length of a day, in seconds, scaled down
MaxTokens == 2       \* tokens the clients keep at once
MaxRouters == 2      \* APIRouter objects _create_router may build in one run

\* ------------------------------------------------------------------ inputs
Procs == {"p1", "p2"}                 \* concurrent request handlers
Emails == {"a@x.io", "b@x.io"}        \* values UserCreate.email accepts
Usernames == {"a@x.io", "bob"}        \* 3..50 characters, no other rule
Passwords == {"secret1", "secret2"}   \* 6..100 characters
Micros == {0, 7}                      \* microseconds below the millisecond
Identifiers == Emails \cup Usernames \cup {"eve"}
Backends == {"inmemory", "sql", "mongo"}
UserIds == 1 .. MaxIds
NoId == 0                             \* Python None / "" for a user id

\* settings.jwt_secret_key, settings.jwt_access_token_expire_days
jwt_secret_key == "secret"
jwt_access_token_expire_days == 1

VARIABLES
  backend,          \* AuthService.backend, chosen by _select_backend
  mongo_indexes,    \* TRUE iff MongoAuthBackend.init created the unique indexes
  users_by_id,      \* InMemoryAuthBackend._users_by_id
  id_by_email,      \* InMemoryAuthBackend._id_by_email
  id_by_username,   \* InMemoryAuthBackend._id_by_username
  sql_users,        \* rows of table "users" (UserORM)
  mongo_users,      \* documents of collection db.users
  now,              \* wall clock, in ticks
  id_seq,           \* user ids handed out so far (timestamps, strictly increasing)
  tokens,           \* access tokens the clients hold
  reg,              \* per handler: the register call in flight
  resp,             \* the last HTTP response sent, with the request it answers
  artifacts,        \* user ids for which the artifact service stores the file
  eq_store,         \* SpecBackends: the three backends' stores
  eq_res,           \* SpecBackends: the three results of the last call
  api_tools, fastmcp_tools, custom_tools,  \* ToolRegistry dictionaries
  proxy_handlers,   \* ToolRegistry._proxy_handlers
  router,           \* ToolRegistry._router
  router_seq,       \* APIRouter objects built so far (object identities)
  served,           \* the route and handler that served the last tool request
  environ,          \* os.environ: the names that are set
  proxy,            \* a proxy handler object (APIProxyHandler or FastMCPProxyHandler)
  forwarded,        \* the last request the proxy handler sent upstream
  relayed,          \* what its proxy_request returned last, with the upstream outcome
  cache,            \* SpecLoader.cache_dir: per URL the spec file and the metadata file
  loaded,           \* the last load_spec call and what it returned
  settings,         \* config.settings: the fields the service selection reads
  available,        \* EXTRA_SESSIONS_AVAILABLE, EXTRA_ARTIFACTS_AVAILABLE
  services          \* main.py: the three services created at start-up, or the exception

authVars == <<backend, mongo_indexes, users_by_id, id_by_email, id_by_username,
              sql_users, mongo_users, now, id_seq, tokens, reg, resp, artifacts>>
eqVars == <<eq_store, eq_res>>
registryVars == <<api_tools, fastmcp_tools, custom_tools, proxy_handlers, router,
                  router_seq, served>>
proxyVars == <<environ, proxy, forwarded, relayed>>
loaderVars == <<cache, loaded>>
factoryVars == <<settings, available, services>>
otherVars == <<proxyVars, loaderVars, factoryVars>>
vars == <<authVars, eqVars, registryVars, otherVars>>

\* ------------------------------------------------------------ models/auth.py
\* User(id, email, username, hashed_password, created_at, is_active)
User(id, email, username, hashed, created) ==
  [id |-> id, email |-> email, username |-> username,
   hashed_password |-> hashed, created_at |-> created, is_active |-> TRUE]

\* datetime.now(timezone.utc) read at tick t: an aware datetime; micros is
\* the part of it below one millisecond
datetime_now(t, micros) == [ticks |-> t, micros |-> micros, tzinfo |-> "UTC"]
NoTime == [ticks |-> 0, micros |-> 0, tzinfo |-> "none"]

NoUser == [id |-> NoId, email |-> "", username |-> "",
           hashed_password |-> <<"", "">>, created_at |-> NoTime, is_active |-> FALSE]

\* Results of a backend call: a user, None, or an exception.
Found(u) == [tag |-> "user", user |-> u, exc |-> ""]
NotFound == [tag |-> "none", user |-> NoUser, exc |-> ""]
Raise(e) == [tag |-> "raise", user |-> NoUser, exc |-> e]

\* -------------------------------------------------------- services/auth.py
\* bcrypt: the hash records the password it was made from; checkpw compares.
hash_password(password) == <<"bcrypt", password>>
verify_password(password, hashed_password) == hashed_password = <<"bcrypt", password>>

\* jwt.encode turns exp and iat into whole seconds (it truncates).
ToSeconds(t) == t \div TicksPerSec
ExpireSecs == jwt_access_token_expire_days * DaySecs

\* issued_at is not part of the payload: it records the instant (in ticks) at
\* which the token was made
create_access_token(user_id, t) ==
  [user_id |-> user_id, iat |-> ToSeconds(t),
   exp |-> ToSeconds(t + ExpireSecs * TicksPerSec), key |-> jwt_secret_key,
   issued_at |-> t]

NoToken == [user_id |-> NoId, iat |-> 0, exp |-> 0, key |-> "none", issued_at |-> 0]

\* a decoder that does not check the signature
verify_token_any_key(token, t) ==
  IF token.exp * TicksPerSec <= t THEN NoId ELSE token.user_id

\* a decoder that still accepts the token at the instant of its exp claim
verify_token_through_exp(token, t) ==
  IF token.key # jwt_secret_key THEN NoId
  ELSE IF token.exp * TicksPerSec < t THEN NoId
  ELSE token.user_id

\* jwt.decode: bad signature -> InvalidTokenError; exp <= now -> ExpiredSignatureError;
\* both give None. Otherwise payload.get("user_id").
verify_token(token, t) ==
  IF token.key # jwt_secret_key THEN NoId
  ELSE IF token.exp * TicksPerSec <= t THEN NoId
  ELSE token.user_id

get_user_response(user) ==
  [id |-> user.id, email |-> user.email, username |-> user.username,
   created_at |-> user.created_at, is_active |-> user.is_active]

NoUserResponse == get_user_response(NoUser)

\* ------------------------------------- services/auth_backends/*_backend.py
\* Each look-up gives the SET of results the call can produce.
EmptyDict == [k \in {} |-> NoId]
InMemoryEmpty == [users_by_id |-> EmptyDict, id_by_email |-> EmptyDict,
                  id_by_username |-> EmptyDict]

\* InMemoryAuthBackend
inmemory_get_by_id(st, user_id) ==
  IF user_id \in DOMAIN st.users_by_id THEN {Found(st.users_by_id[user_id])}
  ELSE {NotFound}

inmemory_get_by_email_or_username(st, identifier) ==
  LET user_id == IF identifier \in DOMAIN st.id_by_email
                   THEN st.id_by_email[identifier]
                 ELSE IF identifier \in DOMAIN st.id_by_username
                   THEN st.id_by_username[identifier]
                 ELSE NoId
  IN IF user_id # NoId THEN inmemory_get_by_id(st, user_id) ELSE {NotFound}

inmemory_create_user(st, user) ==
  [store |-> [users_by_id |-> (user.id :> user) @@ st.users_by_id,
              id_by_email |-> (user.email :> user.id) @@ st.id_by_email,
              id_by_username |-> (user.username :> user.id) @@ st.id_by_username],
   res |-> Found(user)]

\* SQLAuthBackend: scalar_one_or_none raises when several rows match
ScalarOneOrNone(rows) ==
  IF rows = {} THEN {NotFound}
  ELSE IF Cardinality(rows) = 1 THEN {Found(r) : r \in rows}
  ELSE {Raise("MultipleResultsFound")}

sql_get_by_email_or_username(rows, identifier) ==
  ScalarOneOrNone({r \in rows : r.email = identifier \/ r.username = identifier})

sql_get_by_id(rows, user_id) ==
  ScalarOneOrNone({r \in rows : r.id = user_id})

\* A DateTime column of the default SQLite database keeps no time zone: the
\* value read back is naive
sqlite_datetime(d) == [d EXCEPT !.tzinfo = "naive"]

\* the row as it is read back
UserORM(user) == [user EXCEPT !.created_at = sqlite_datetime(@)]

\* UserORM: id is the primary key, email and username are unique columns
UserORMConflict(rows, user) ==
  \E r \in rows : r.id = user.id \/ r.email = user.email \/ r.username = user.username

sql_create_user(rows, user) ==
  IF UserORMConflict(rows, user)
  THEN [store |-> rows, res |-> Raise("IntegrityError")]
  ELSE [store |-> rows \cup {UserORM(user)}, res |-> Found(user)]

\* A BSON date counts milliseconds and the client decodes it to a naive
\* datetime
bson_datetime(d) == [d EXCEPT !.micros = 0, !.tzinfo = "naive"]

\* the document as find_one gives it back
model_dump(user) == [user EXCEPT !.created_at = bson_datetime(@)]

\* MongoAuthBackend: find_one gives any one matching document
mongo_get_by_email_or_username(docs, identifier) ==
  LET m == {d \in docs : (d.email = identifier \/ d.username = identifier)
                         /\ d.is_active}
  IN IF m = {} THEN {NotFound} ELSE {Found(d) : d \in m}

mongo_get_by_id(docs, user_id) ==
  LET m == {d \in docs : d.id = user_id /\ d.is_active}
  IN IF m = {} THEN {NotFound} ELSE {Found(d) : d \in m}

\* insert_one fails on the unique indexes init() creates, when they exist
mongo_create_user(docs, indexes, user) ==
  IF indexes /\ \E d \in docs : d.email = user.email \/ d.username = user.username
  THEN [store |-> docs, res |-> Raise("DuplicateKeyError")]
  ELSE [store |-> docs \cup {model_dump(user)}, res |-> Found(user)]

\* AuthBackend interface, dispatched on the backend selected
get_by_email_or_username(b, st, identifier) ==
  CASE b = "inmemory" -> inmemory_get_by_email_or_username(st, identifier)
    [] b = "sql" -> sql_get_by_email_or_username(st, identifier)
    [] b = "mongo" -> mongo_get_by_email_or_username(st, identifier)

get_by_id(b, st, user_id) ==
  CASE b = "inmemory" -> inmemory_get_by_id(st, user_id)
    [] b = "sql" -> sql_get_by_id(st, user_id)
    [] b = "mongo" -> mongo_get_by_id(st, user_id)

create_user(b, st, indexes, user) ==
  CASE b = "inmemory" -> inmemory_create_user(st, user)
    [] b = "sql" -> sql_create_user(st, user)
    [] b = "mongo" -> mongo_create_user(st, indexes, user)

\* The users a store holds
StoredIn(b, st) ==
  IF b = "inmemory" THEN {st.users_by_id[i] : i \in DOMAIN st.users_by_id} ELSE st

\* AuthService.authenticate_user
authenticate_user(b, st, email_or_username, password) ==
  {IF r.tag = "user" /\ ~verify_password(password, r.user.hashed_password)
     THEN NotFound ELSE r
   : r \in get_by_email_or_username(b, st, email_or_username)}

\* AuthService.get_user_by_id
get_user_by_id(b, st, user_id) == get_by_id(b, st, user_id)

\* AuthService.register_user run without interruption: the outcomes, each a
\* store and a result (the user created, or the exception raised)
register_user(b, st, indexes, email, username, password, user_id, created_at) ==
  LET user == User(user_id, email, username, hash_password(password), created_at)
      after_username(r) ==
        CASE r.tag = "user" -> [store |-> st, res |-> Raise("Username already taken")]
          [] r.tag = "raise" -> [store |-> st, res |-> r]
          [] r.tag = "none" -> create_user(b, st, indexes, user)
      after_email(r) ==
        CASE r.tag = "user" -> {[store |-> st, res |-> Raise("Email already registered")]}
          [] r.tag = "raise" -> {[store |-> st, res |-> r]}
          [] r.tag = "none" ->
               {after_username(r2) : r2 \in get_by_email_or_username(b, st, username)}
  IN UNION {after_email(r) : r \in get_by_email_or_username(b, st, email)}

\* ------------------------------------------------------------- the server
\* The store of the backend selected, and its replacement after a write
Store ==
  CASE backend = "inmemory" -> [users_by_id |-> users_by_id, id_by_email |-> id_by_email,
                                id_by_username |-> id_by_username]
    [] backend = "sql" -> sql_users
    [] backend = "mongo" -> mongo_users

SetStore(st) ==
  CASE backend = "inmemory" ->
         /\ users_by_id' = st.users_by_id
         /\ id_by_email' = st.id_by_email
         /\ id_by_username' = st.id_by_username
         /\ UNCHANGED <<sql_users, mongo_users>>
    [] backend = "sql" ->
         /\ sql_users' = st
         /\ UNCHANGED <<users_by_id, id_by_email, id_by_username, mongo_users>>
    [] backend = "mongo" ->
         /\ mongo_users' = st
         /\ UNCHANGED <<users_by_id, id_by_email, id_by_username, sql_users>>

storeVars == <<users_by_id, id_by_email, id_by_username, sql_users, mongo_users>>
StoredUsers == StoredIn(backend, Store)

\* A request as the handlers see it, and the response sent for it
NoRequest == [email |-> "", username |-> "", password |-> "", identifier |-> "",
              token |-> NoToken, path_user |-> NoId, held |-> FALSE]

Response(op, request, status, detail, user, token, ran) ==
  [op |-> op, req |-> request, status |-> status, detail |-> detail,
   user |-> user, token |-> token, at |-> now, ran |-> ran,
   current_user |-> NoId, svc |-> {}]

NoResponse == [op |-> "none", req |-> NoRequest, status |-> 0, detail |-> "",
               user |-> NoUserResponse, token |-> NoToken, at |-> 0, ran |-> FALSE,
               current_user |-> NoId, svc |-> {}]

IdleCall == [pc |-> "idle", req |-> NoRequest]
InFlight == Cardinality({p \in Procs : reg[p].pc # "idle"})

\* The coroutines of InMemoryAuthBackend contain no await, so awaiting them
\* never yields to the event loop: on that backend a handler runs from start
\* to end with no other handler's step in between. The SQL and Mongo
\* backends await real I/O, and their handlers interleave at every await.
Yields(b) == b # "inmemory"
Runnable(p) == Yields(backend) \/ \A q \in Procs \ {p} : reg[q].pc = "idle"
LoopFree == Yields(backend) \/ \A q \in Procs : reg[q].pc = "idle"

\* The client keeps a token it was sent while it has room for it
Keep(token) == IF Cardinality(tokens) < MaxTokens THEN tokens \cup {token} ELSE tokens

\* routes/auth.py register: ValueError -> 400, any other exception -> 500
register_rejected(p, detail) ==
  /\ resp' = Response("register", reg[p].req, 400, detail, NoUserResponse, NoToken, TRUE)
  /\ reg' = [reg EXCEPT ![p] = IdleCall]

register_failed(p) ==
  /\ resp' = Response("register", reg[p].req, 500, "Registration failed",
                      NoUserResponse, NoToken, TRUE)
  /\ reg' = [reg EXCEPT ![p] = IdleCall]

\* POST /auth/register arrives; register_user's first look-up (by email)
register_check_email(p, email, username, password) ==
  LET request == [NoRequest EXCEPT !.email = email, !.username = username,
                    !.password = password,
                    !.held = \E u \in StoredUsers :
                                u.email = email \/ u.username = username]
  IN /\ reg[p].pc = "idle"
     /\ Runnable(p)
     /\ \E r \in get_by_email_or_username(backend, Store, email) :
          CASE r.tag = "user" ->
                 /\ resp' = Response("register", request, 400, "Email already registered",
                                     NoUserResponse, NoToken, TRUE)
                 /\ UNCHANGED reg
            [] r.tag = "raise" ->
                 /\ resp' = Response("register", request, 500, "Registration failed",
                                     NoUserResponse, NoToken, TRUE)
                 /\ UNCHANGED reg
            [] r.tag = "none" ->
                 /\ id_seq + InFlight < MaxIds
                 /\ reg' = [reg EXCEPT ![p] = [pc |-> "check_username", req |-> request]]
                 /\ UNCHANGED resp
     /\ UNCHANGED <<backend, mongo_indexes, storeVars, now, id_seq, tokens, artifacts>>
     /\ UNCHANGED <<eqVars, registryVars, otherVars>>

\* register_user's second look-up (by username)
register_check_username(p) ==
  /\ reg[p].pc = "check_username"
  /\ Runnable(p)
  /\ \E r \in get_by_email_or_username(backend, Store, reg[p].req.username) :
       CASE r.tag = "user" -> register_rejected(p, "Username already taken")
         [] r.tag = "raise" -> register_failed(p)
         [] r.tag = "none" ->
              /\ reg' = [reg EXCEPT ![p].pc = "create"]
              /\ UNCHANGED resp
  /\ UNCHANGED <<backend, mongo_indexes, storeVars, now, id_seq, tokens, artifacts>>
  /\ UNCHANGED <<eqVars, registryVars, otherVars>>

\* register_user builds the User and calls create_user; the route answers 201
\* with a fresh access token. The id is the microsecond timestamp: bcrypt runs
\* between any two readings of it, so it differs from every earlier id.
register_create(p, micros) ==
  LET request == reg[p].req
      user == User(id_seq + 1, request.email, request.username,
                   hash_password(request.password), datetime_now(now, micros))
      out == create_user(backend, Store, mongo_indexes, user)
      token == create_access_token(user.id, now)
  IN /\ reg[p].pc = "create"
     /\ Runnable(p)
     /\ id_seq' = id_seq + 1
     /\ IF out.res.tag = "user"
        THEN /\ SetStore(out.store)
             /\ resp' = Response("register", request, 201, "", get_user_response(user),
                                 token, TRUE)
             /\ tokens' = Keep(token)
        ELSE /\ UNCHANGED <<storeVars, tokens>>
             /\ resp' = Response("register", request, 500, "Registration failed",
                                 NoUserResponse, NoToken, TRUE)
     /\ reg' = [reg EXCEPT ![p] = IdleCall]
     /\ UNCHANGED <<backend, mongo_indexes, now, artifacts>>
     /\ UNCHANGED <<eqVars, registryVars, otherVars>>

\* POST /auth/login: authenticate_user, then a token; one await, then no other
login(email_or_username, password) ==
  LET request == [NoRequest EXCEPT !.identifier = email_or_username,
                                   !.password = password]
  IN /\ LoopFree
     /\ \E r \in authenticate_user(backend, Store, email_or_username, password) :
          CASE r.tag = "none" ->
                 /\ resp' = Response("login", request, 401, "Invalid credentials",
                                     NoUserResponse, NoToken, TRUE)
                 /\ UNCHANGED tokens
            [] r.tag = "raise" ->
                 /\ resp' = Response("login", request, 500, "Authentication failed",
                                     NoUserResponse, NoToken, TRUE)
                 /\ UNCHANGED tokens
            [] r.tag = "user" ->
                 /\ resp' = Response("login", request, 200, "", get_user_response(r.user),
                                     create_access_token(r.user.id, now), TRUE)
                 /\ tokens' = Keep(create_access_token(r.user.id, now))
     /\ UNCHANGED <<backend, mongo_indexes, storeVars, now, id_seq, reg, artifacts>>
     /\ UNCHANGED <<eqVars, registryVars, otherVars>>

\* POST /auth/logout: answers, touches nothing
logout ==
  /\ LoopFree
  /\ resp' = Response("logout", NoRequest, 200, "Successfully logged out",
                      NoUserResponse, NoToken, TRUE)
  /\ UNCHANGED <<backend, mongo_indexes, storeVars, now, id_seq, tokens, reg, artifacts>>
  /\ UNCHANGED <<eqVars, registryVars, otherVars>>

\* time passes
Tick ==
  /\ now < MaxClock
  /\ now' = now + 1
  /\ UNCHANGED <<backend, mongo_indexes, storeVars, id_seq, tokens, reg, resp, artifacts>>
  /\ UNCHANGED <<eqVars, registryVars, otherVars>>

\* ------------------------------------------------------ middleware/auth.py
\* Tokens a client can present: none, one it was sent, one signed with another key
ForgedTokens == {[user_id |-> 1, iat |-> 0, exp |-> MaxClock + 1, key |-> "other",
                  issued_at |-> 0]}
Presentable == tokens \cup ForgedTokens \cup {NoToken}

Authenticated(u) == [status |-> 200, detail |-> "", user |-> u]
Unauthorized(detail) == [status |-> 401, detail |-> detail, user |-> NoUser]

\* get_current_user: the outcomes for a bearer token (NoToken: no credentials)
get_current_user(token) ==
  IF token = NoToken THEN {Unauthorized("Authentication credentials required")}
  ELSE IF verify_token(token, now) = NoId THEN {Unauthorized("Invalid or expired token")}
  ELSE {CASE r.tag = "user" -> Authenticated(r.user)
          [] r.tag = "none" -> Unauthorized("User not found or inactive")
          [] r.tag = "raise" -> [status |-> 500, detail |-> "Internal Server Error",
                                 user |-> NoUser]
        : r \in get_by_id(backend, Store, verify_token(token, now))}

\* A dependency that raised: the handler is not called
Denied(op, request, auth) ==
  Response(op, request, auth.status, auth.detail, NoUserResponse, NoToken, FALSE)

\* The handler was called with the authenticated user; calls: the artifact
\* service methods it invoked
Handled(op, request, auth, status, detail, calls) ==
  [Response(op, request, status, detail, NoUserResponse, NoToken, TRUE)
   EXCEPT !.current_user = auth.user.id, !.svc = calls]

\* GET /auth/me: the handler awaits the User object it was given, which is
\* not awaitable: TypeError, answered 500
get_current_user_info(token) ==
  LET request == [NoRequest EXCEPT !.token = token]
  IN /\ LoopFree
     /\ \E auth \in get_current_user(token) :
          resp' = IF auth.status # 200 THEN Denied("me", request, auth)
                  ELSE Handled("me", request, auth, 500, "Internal Server Error", {})
     /\ UNCHANGED <<backend, mongo_indexes, storeVars, now, id_seq, tokens, reg, artifacts>>
     /\ UNCHANGED <<eqVars, registryVars, otherVars>>

\* --------------------------------------------------- routes/artifacts.py
Filenames == {"", "f.txt"}
PathUsers == {1, 2}                   \* the {user_id} of the request path
ArtifactOps == {"upload", "artifacts-metadata", "download"}
Call(method, user_id) == [method |-> method, user_id |-> user_id]

\* a handler that leaves the ownership test out
AnyUserAuthorized(current_user, user_id) == FALSE

\* the test every artifact handler makes first; 403 when the ids differ
NotAuthorized(current_user, user_id) == current_user # user_id

\* POST .../upload: the response, and the users with a stored artifact after it
upload_file_handler(request, auth, user_id, file_empty, filename) ==
  IF NotAuthorized(auth.user.id, user_id)
  THEN [resp |-> Handled("upload", request, auth, 403, "Not authorized", {}),
        artifacts |-> artifacts]
  ELSE IF file_empty
  THEN [resp |-> Handled("upload", request, auth, 400, "File is empty", {}),
        artifacts |-> artifacts]
  ELSE IF filename = ""
  THEN [resp |-> Handled("upload", request, auth, 400, "Filename is required", {}),
        artifacts |-> artifacts]
  ELSE [resp |-> Handled("upload", request, auth, 200, "",
                         {Call("save_artifact", user_id)}),
        artifacts |-> artifacts \cup {user_id}]

upload_file(token, user_id, file_empty, filename) ==
  LET request == [NoRequest EXCEPT !.token = token, !.path_user = user_id]
  IN /\ LoopFree
     /\ \E auth \in get_current_user(token) :
          IF auth.status # 200
          THEN /\ resp' = Denied("upload", request, auth)
               /\ UNCHANGED artifacts
          ELSE LET out == upload_file_handler(request, auth, user_id, file_empty, filename)
               IN /\ resp' = out.resp
                  /\ artifacts' = out.artifacts
     /\ UNCHANGED <<backend, mongo_indexes, storeVars, now, id_seq, tokens, reg>>
     /\ UNCHANGED <<eqVars, registryVars, otherVars>>

\* GET .../artifacts-metadata
get_artifacts_metadata_handler(request, auth, user_id) ==
  IF NotAuthorized(auth.user.id, user_id)
  THEN Handled("artifacts-metadata", request, auth, 403, "Not authorized", {})
  ELSE Handled("artifacts-metadata", request, auth, 200, "",
               {Call("list_artifact_keys", user_id)} \cup
               (IF user_id \in artifacts
                THEN {Call("load_artifact", user_id), Call("list_versions", user_id)}
                ELSE {}))

get_artifacts_metadata(token, user_id) ==
  LET request == [NoRequest EXCEPT !.token = token, !.path_user = user_id]
  IN /\ LoopFree
     /\ \E auth \in get_current_user(token) :
          resp' = IF auth.status # 200 THEN Denied("artifacts-metadata", request, auth)
                  ELSE get_artifacts_metadata_handler(request, auth, user_id)
     /\ UNCHANGED <<backend, mongo_indexes, storeVars, now, id_seq, tokens, reg, artifacts>>
     /\ UNCHANGED <<eqVars, registryVars, otherVars>>

\* GET .../artifacts/{artifact_name}/download
download_artifact_handler(request, auth, user_id) ==
  IF NotAuthorized(auth.user.id, user_id)
  THEN Handled("download", request, auth, 403, "Not authorized", {})
  ELSE IF user_id \in artifacts
  THEN Handled("download", request, auth, 200, "", {Call("load_artifact", user_id)})
  ELSE Handled("download", request, auth, 404, "Artifact not found",
               {Call("load_artifact", user_id)})

download_artifact(token, user_id) ==
  LET request == [NoRequest EXCEPT !.token = token, !.path_user = user_id]
  IN /\ LoopFree
     /\ \E auth \in get_current_user(token) :
          resp' = IF auth.status # 200 THEN Denied("download", request, auth)
                  ELSE download_artifact_handler(request, auth, user_id)
     /\ UNCHANGED <<backend, mongo_indexes, storeVars, now, id_seq, tokens, reg, artifacts>>
     /\ UNCHANGED <<eqVars, registryVars, otherVars>>

\* ------------------------------------------------------- tools/registry.py
ToolNames == {"gh", "mcp"}
NameOrder == <<"gh", "mcp">>
Urls == {"u1", "u2"}
CustomHandlers == {"h1"}

\* the three config models; only the fields the router uses are kept
APIToolConfig(name, base_url, enabled) ==
  [name |-> name, base_url |-> base_url, enabled |-> enabled]
FastMCPToolConfig(name, server_url, enabled) ==
  [name |-> name, server_url |-> server_url, enabled |-> enabled]
CustomToolConfig(name, handler, enabled) ==
  [name |-> name, handler |-> handler, enabled |-> enabled]

\* a proxy handler keeps the config it was constructed with
APIProxyHandler(config) == [type |-> "api", config |-> config]
FastMCPProxyHandler(config) == [type |-> "fastmcp", config |-> config]
NoHandler == [type |-> "none"]

\* a dict keyed by tool name
NoTools == [n \in {} |-> NoHandler]
Put(d, k, v) == [x \in DOMAIN d \cup {k} |-> IF x = k THEN v ELSE d[x]]

\* self._router: None, or the routes in the order they were added
NoRouter == [is_none |-> TRUE, routes |-> <<>>, obj |-> 0]
NoServed == [op |-> "none", name |-> "", status |-> 0, kind |-> "none",
             handler |-> NoHandler]

register_api_tool(name, base_url, enabled) ==
  /\ api_tools' = Put(api_tools, name, APIToolConfig(name, base_url, enabled))
  /\ router' = NoRouter
  /\ UNCHANGED <<fastmcp_tools, custom_tools, proxy_handlers, router_seq, served>>
  /\ UNCHANGED <<authVars, eqVars, otherVars>>

register_fastmcp_tool(name, server_url, enabled) ==
  /\ fastmcp_tools' = Put(fastmcp_tools, name, FastMCPToolConfig(name, server_url, enabled))
  /\ router' = NoRouter
  /\ UNCHANGED <<api_tools, custom_tools, proxy_handlers, router_seq, served>>
  /\ UNCHANGED <<authVars, eqVars, otherVars>>

register_custom_tool(name, handler, enabled) ==
  /\ custom_tools' = Put(custom_tools, name, CustomToolConfig(name, handler, enabled))
  /\ router' = NoRouter
  /\ UNCHANGED <<api_tools, fastmcp_tools, proxy_handlers, router_seq, served>>
  /\ UNCHANGED <<authVars, eqVars, otherVars>>

\* st = [routes, handlers]: the router being built and self._proxy_handlers.
\* The handler of a name is made only when none is kept under that name.
add_api_tool_routes(st, config) ==
  LET handlers == IF config.name \in DOMAIN st.handlers THEN st.handlers
                  ELSE Put(st.handlers, config.name, APIProxyHandler(config))
  IN [routes |-> Append(st.routes, [name |-> config.name, kind |-> "api",
                                    handler |-> handlers[config.name]]),
      handlers |-> handlers]

add_fastmcp_tool_routes(st, config) ==
  LET handlers == IF config.name \in DOMAIN st.handlers THEN st.handlers
                  ELSE Put(st.handlers, config.name, FastMCPProxyHandler(config))
  IN [routes |-> Append(st.routes, [name |-> config.name, kind |-> "fastmcp",
                                    handler |-> handlers[config.name]]),
      handlers |-> handlers]

\* the route calls config.handler
add_custom_tool_routes(st, config) ==
  [routes |-> Append(st.routes, [name |-> config.name, kind |-> "custom",
                                 handler |-> [type |-> "custom", config |-> config]]),
   handlers |-> st.handlers]

add_tool_routes(kind, st, config) ==
  CASE kind = "api" -> add_api_tool_routes(st, config)
    [] kind = "fastmcp" -> add_fastmcp_tool_routes(st, config)
    [] OTHER -> add_custom_tool_routes(st, config)

\* one of the three loops of _create_router, from the i-th name on. Routes of
\* different names never match the same path, so the names of one dict are
\* taken in a fixed order.
RECURSIVE AddEnabled(_, _, _, _)
AddEnabled(kind, tools, st, i) ==
  IF i > Len(NameOrder) THEN st
  ELSE LET name == NameOrder[i]
       IN IF name \notin DOMAIN tools \/ ~tools[name].enabled
          THEN AddEnabled(kind, tools, st, i + 1)
          ELSE AddEnabled(kind, tools, add_tool_routes(kind, st, tools[name]), i + 1)

create_router ==
  AddEnabled("custom", custom_tools,
    AddEnabled("fastmcp", fastmcp_tools,
      AddEnabled("api", api_tools, [routes |-> <<>>, handlers |-> proxy_handlers], 1),
      1),
    1)

\* get_tools_router without the "is None" test: a router is built on every call
get_tools_router_uncached ==
  /\ router_seq < MaxRouters
  /\ router' = [is_none |-> FALSE, routes |-> create_router.routes,
                obj |-> router_seq + 1]
  /\ router_seq' = router_seq + 1
  /\ proxy_handlers' = create_router.handlers
  /\ UNCHANGED <<api_tools, fastmcp_tools, custom_tools, served>>
  /\ UNCHANGED <<authVars, eqVars, otherVars>>

\* obj is the identity of the APIRouter object _create_router returns
get_tools_router ==
  /\ IF router.is_none
     THEN /\ router_seq < MaxRouters
          /\ router' = [is_none |-> FALSE, routes |-> create_router.routes,
                        obj |-> router_seq + 1]
          /\ router_seq' = router_seq + 1
          /\ proxy_handlers' = create_router.handlers
     ELSE UNCHANGED <<router, router_seq, proxy_handlers>>
  /\ UNCHANGED <<api_tools, fastmcp_tools, custom_tools, served>>
  /\ UNCHANGED <<authVars, eqVars, otherVars>>

clear_tools ==
  /\ api_tools' = NoTools
  /\ fastmcp_tools' = NoTools
  /\ custom_tools' = NoTools
  /\ proxy_handlers' = NoTools
  /\ router' = NoRouter
  /\ UNCHANGED <<router_seq, served>>
  /\ UNCHANGED <<authVars, eqVars, otherVars>>

\* the tool type _generate_individual_openapi_spec selects, "none" for None
generate_individual_openapi_spec(tool_name) ==
  IF tool_name \in DOMAIN api_tools /\ api_tools[tool_name].enabled THEN "api"
  ELSE IF tool_name \in DOMAIN fastmcp_tools /\ fastmcp_tools[tool_name].enabled
  THEN "fastmcp"
  ELSE IF tool_name \in DOMAIN custom_tools /\ custom_tools[tool_name].enabled
  THEN "custom"
  ELSE "none"

\* GET /tools/{tool_name}/openapi.json on the generated router: the 404 is
\* raised inside the try block whose except clause answers 500
get_tool_openapi_spec(tool_name) ==
  /\ ~router.is_none
  /\ LET tool_type == generate_individual_openapi_spec(tool_name)
     IN served' = [op |-> "openapi", name |-> tool_name,
                   status |-> IF tool_type = "none" THEN 500 ELSE 200,
                   kind |-> tool_type, handler |-> NoHandler]
  /\ UNCHANGED <<api_tools, fastmcp_tools, custom_tools, proxy_handlers, router,
                 router_seq>>
  /\ UNCHANGED <<authVars, eqVars, otherVars>>

\* a request to /tools/{name}/{path} on the generated router is given to the
\* first route whose path matches
tool_request(name) ==
  /\ ~router.is_none
  /\ LET matching == {i \in 1 .. Len(router.routes) : router.routes[i].name = name}
         first == CHOOSE i \in matching : \A j \in matching : i <= j
     IN served' = IF matching = {}
                  THEN [op |-> "proxy", name |-> name, status |-> 404,
                        kind |-> "none", handler |-> NoHandler]
                  ELSE [op |-> "proxy", name |-> name, status |-> 200,
                        kind |-> router.routes[first].kind,
                        handler |-> router.routes[first].handler]
  /\ UNCHANGED <<api_tools, fastmcp_tools, custom_tools, proxy_handlers, router,
                 router_seq>>
  /\ UNCHANGED <<authVars, eqVars, otherVars>>

\* ------------------------------ tools/api_proxy.py, tools/fastmcp_proxy.py
\* os.environ: names that may be set, each with its value
EnvNames == {"TOKEN", "USER", "PASS"}
EnvValue == [TOKEN |-> "t0k", USER |-> "usr", PASS |-> "pwd"]

\* config.auth: the type and the names of the environment variables it reads
AuthConfig(type, env1, env2) == [type |-> type, env1 |-> env1, env2 |-> env2]
NoAuth == AuthConfig("none", "", "")
AuthConfigs == {NoAuth, AuthConfig("bearer", "TOKEN", ""),
                AuthConfig("api_key", "TOKEN", ""), AuthConfig("basic", "USER", "PASS")}

\* a Python dict of headers: keys are compared as written, case included
NoHeaders == [k \in {} |-> ""]
Update(d, e) == [k \in DOMAIN d \cup DOMAIN e |-> IF k \in DOMAIN e THEN e[k] ELSE d[k]]

\* base64.b64encode on the credentials used here
b64encode(text) == IF text = "usr:pwd" THEN "dXNyOnB3ZA==" ELSE text

\* _prepare_auth_headers, run once by __init__ with the environment of then
prepare_auth_headers(auth, env) ==
  CASE auth.type = "bearer" ->
         IF auth.env1 \in env
         THEN Put(NoHeaders, "Authorization", "Bearer " \o EnvValue[auth.env1])
         ELSE NoHeaders
    [] auth.type = "api_key" ->
         IF auth.env1 \in env
         THEN Put(NoHeaders, "X-API-Key", EnvValue[auth.env1])
         ELSE NoHeaders
    [] auth.type = "basic" ->
         IF auth.env1 \in env /\ auth.env2 \in env
         THEN Put(NoHeaders, "Authorization",
                  "Basic " \o b64encode(EnvValue[auth.env1] \o ":" \o EnvValue[auth.env2]))
         ELSE NoHeaders
    [] OTHER -> NoHeaders

\* APIProxyHandler.__init__ / FastMCPProxyHandler.__init__
ProxyHandler_init(kind, auth, env) ==
  [kind |-> kind, auth |-> auth, auth_headers |-> prepare_auth_headers(auth, env),
   server_ready |-> FALSE]
NoProxy == [kind |-> "none", auth |-> NoAuth, auth_headers |-> NoHeaders,
            server_ready |-> FALSE]

\* str.lower() on the header names used here
Lower(name) ==
  CASE name \in {"Authorization", "AUTHORIZATION"} -> "authorization"
    [] name = "Host" -> "host"
    [] name = "Content-Type" -> "content-type"
    [] name = "X-API-Key" -> "x-api-key"
    [] OTHER -> name

SkippedRequestHeaders ==
  {"host", "content-length", "connection", "upgrade", "proxy-connection",
   "proxy-authenticate", "proxy-authorization", "te", "trailers", "transfer-encoding"}

\* the requests of clients: the header lines as the client wrote them
ClientHeaderLists ==
  {<< <<"Host", "edge">> >>} \cup
  {<< <<"Host", "edge">>, <<name, "Bearer client">> >> :
     name \in {"Authorization", "authorization", "AUTHORIZATION"}}
ClientRequests == [method : {"GET", "POST"}, headers : ClientHeaderLists]

\* request.headers.items(): the header list of the ASGI scope, in which the
\* server has put every header name in lower case
request_headers_items(request) ==
  [i \in DOMAIN request.headers |->
     <<Lower(request.headers[i][1]), request.headers[i][2]>>]

\* the copying loop of _prepare_headers, from the i-th item on
RECURSIVE CopyHeaders(_, _, _)
CopyHeaders(items, i, headers) ==
  IF i > Len(items) THEN headers
  ELSE CopyHeaders(items, i + 1,
                   IF Lower(items[i][1]) \in SkippedRequestHeaders THEN headers
                   ELSE Put(headers, items[i][1], items[i][2]))

\* APIProxyHandler._prepare_headers
api_prepare_headers(handler, request) ==
  Update(CopyHeaders(request_headers_items(request), 1, NoHeaders), handler.auth_headers)

\* FastMCPProxyHandler._prepare_headers
fastmcp_prepare_headers(handler, request) ==
  LET headers == Update(CopyHeaders(request_headers_items(request), 1, NoHeaders),
                        handler.auth_headers)
  IN IF request.method \in {"POST", "PUT", "PATCH"} /\ "content-type" \notin DOMAIN headers
     THEN Put(headers, "Content-Type", "application/json")
     ELSE headers

\* the values the upstream receives under a header name: the client sends
\* one header line per dict item, and header names are case-insensitive
WireValues(headers, name) ==
  {headers[k] : k \in {x \in DOMAIN headers : Lower(x) = Lower(name)}}

\* what the upstream does with a request
UpstreamOutcomes ==
  [tag : {"response"}, status : {200, 404},
   content_type : {"application/json", "text/plain", "application/octet-stream", ""},
   body : {"{\"a\": 1}", "<html>"}]
  \cup {[tag |-> t, status |-> 0, content_type |-> "", body |-> ""] :
          t \in {"timeout", "connect_error"}}

\* response.json(): the parsed document, or json.JSONDecodeError
json_loads(text) ==
  IF text \in {"{\"a\": 1}", "{\"a\":1}"} THEN "obj_a_1" ELSE "JSONDecodeError"
\* JSONResponse.render: json.dumps with the compact separators
json_dumps(value) == IF value = "obj_a_1" THEN "{\"a\":1}" ELSE "null"

\* the value proxy_request returns or the exception it raises
Relay(cls, status, body, media_type) ==
  [cls |-> cls, status |-> status, body |-> body, media_type |-> media_type]
ReturnedNone == Relay("None", 0, "", "")
NoForwarded == [sent |-> FALSE, method |-> "", headers |-> NoHeaders]
NoRelayed == [kind |-> "none", upstream |-> [tag |-> "none"], result |-> ReturnedNone]

\* APIProxyHandler._process_response: when the body of a response declared
\* as JSON does not parse, the except clause passes and the function ends
\* without a return statement
api_process_response(response) ==
  IF response.content_type = "application/json"
  THEN IF json_loads(response.body) # "JSONDecodeError"
       THEN Relay("JSONResponse", response.status,
                  json_dumps(json_loads(response.body)), "application/json")
       ELSE ReturnedNone
  ELSE IF response.content_type = "text/plain"
  THEN Relay("Response", response.status, response.body, response.content_type)
  ELSE Relay("StreamingResponse", response.status, response.body, response.content_type)

\* FastMCPProxyHandler._process_response
fastmcp_process_response(response) ==
  IF response.content_type \in {"application/json", ""}
  THEN IF json_loads(response.body) # "JSONDecodeError"
       THEN Relay("JSONResponse", response.status,
                  json_dumps(json_loads(response.body)), "application/json")
       ELSE Relay("Response", response.status, response.body, "text/plain")
  ELSE IF response.content_type = "text/plain"
  THEN Relay("Response", response.status, response.body, response.content_type)
  ELSE Relay("StreamingResponse", response.status, response.body, response.content_type)

\* a handler is constructed (by the registry, when a route is first added);
\* it has proxied nothing yet
create_proxy_handler(kind, auth) ==
  /\ proxy' = ProxyHandler_init(kind, auth, environ)
  /\ forwarded' = NoForwarded
  /\ relayed' = NoRelayed
  /\ UNCHANGED environ
  /\ UNCHANGED <<authVars, eqVars, registryVars, loaderVars, factoryVars>>

\* proxy_request of either handler class; outcome is what the upstream does.
\* The FastMCP handler first checks the health of a server not yet seen up
\* and raises 503 when no endpoint answers.
proxy_request(request, outcome) ==
  /\ proxy.kind # "none"
  /\ LET unhealthy == /\ proxy.kind = "fastmcp"
                      /\ ~proxy.server_ready
                      /\ outcome.tag # "response"
         headers == IF proxy.kind = "api" THEN api_prepare_headers(proxy, request)
                    ELSE fastmcp_prepare_headers(proxy, request)
         result ==
           CASE unhealthy -> Relay("HTTPException", 503, "", "")
             [] outcome.tag = "timeout" -> Relay("HTTPException", 504, "", "")
             [] outcome.tag = "connect_error" -> Relay("HTTPException", 502, "", "")
             [] proxy.kind = "api" -> api_process_response(outcome)
             [] OTHER -> fastmcp_process_response(outcome)
     IN /\ forwarded' = IF unhealthy THEN NoForwarded
                        ELSE [sent |-> TRUE, method |-> request.method, headers |-> headers]
        /\ relayed' = [kind |-> proxy.kind, upstream |-> outcome, result |-> result]
        /\ proxy' = IF proxy.kind = "fastmcp" /\ ~unhealthy
                    THEN [proxy EXCEPT !.server_ready = TRUE] ELSE proxy
  /\ UNCHANGED environ
  /\ UNCHANGED <<authVars, eqVars, registryVars, loaderVars, factoryVars>>

\* ---------------------------------------------------- tools/spec_loader.py
SpecUrls == {"https://a.io/openapi.json", "https://b.io/openapi.yaml"}
CacheTtls == {0, 1}                   \* cache_ttl, in seconds

\* A parsed specification: the version of the document, whether the mapping
\* has integer keys (YAML "responses: 200:") and whether it holds a date
\* value (YAML "version: 2024-01-01")
SpecDict(version, int_keys, dates) ==
  [version |-> version, int_keys |-> int_keys, dates |-> dates]

\* what the URL serves when asked: JSON or YAML text, or an HTTP error
Content(format, version, int_keys, dates) ==
  [format |-> format, version |-> version, int_keys |-> int_keys, dates |-> dates]
RemoteContents ==
  {Content("json", "v1", FALSE, FALSE), Content("json", "v2", FALSE, FALSE),
   Content("yaml", "v1", TRUE, FALSE), Content("yaml", "v1", FALSE, TRUE),
   Content("error", "", FALSE, FALSE)}

\* _parse_spec_content: json.loads, then yaml.safe_load
parse_spec_content(content) ==
  SpecDict(content.version, content.int_keys, content.dates)

\* the two files of a cache key
AbsentFile == [state |-> "absent", version |-> ""]
TruncatedFile == [state |-> "truncated", version |-> ""]
NoEntry == [file |-> AbsentFile, has_meta |-> FALSE, cached_at |-> 0]

\* json.dump(spec, f): integer keys are written as strings; a date value
\* raises TypeError after the file was opened for writing and partly written
json_dump_file(spec) ==
  IF spec.dates THEN TruncatedFile ELSE [state |-> "json", version |-> spec.version]

\* json.loads(cache_file.read_text()), for a complete file
json_load_file(file) == SpecDict(file.version, FALSE, FALSE)

NoSpec == [version |-> "none", int_keys |-> FALSE, dates |-> FALSE]

\* time.time() - cached_at > cache_ttl, with the clock in ticks
Expired(entry, cache_ttl, t) == t - entry.cached_at > cache_ttl * TicksPerSec

\* _get_cached_spec: NoSpec for None
get_cached_spec(entry, cache_ttl, t) ==
  IF entry.file.state = "absent" \/ ~entry.has_meta THEN NoSpec
  ELSE IF Expired(entry, cache_ttl, t) THEN NoSpec
  ELSE IF entry.file.state = "truncated" THEN NoSpec
  ELSE json_load_file(entry.file)

\* _cache_spec: the spec file is written first; when that raises, the
\* exception is printed and the metadata file is left as it was
cache_spec(entry, spec, t) ==
  IF json_dump_file(spec).state = "truncated"
  THEN [entry EXCEPT !.file = TruncatedFile]
  ELSE [file |-> json_dump_file(spec), has_meta |-> TRUE, cached_at |-> t]

NoLoaded == [url |-> "", cache_enabled |-> FALSE, cache_ttl |-> 0, at |-> 0,
             before |-> NoEntry, after |-> NoEntry, downloaded |-> FALSE,
             raised |-> FALSE, spec |-> NoSpec]

\* load_spec for a URL (_load_from_url); content is what a download yields
load_spec(url, cache_enabled, cache_ttl, content) ==
  /\ LET cached == IF cache_enabled THEN get_cached_spec(cache[url], cache_ttl, now)
                   ELSE NoSpec
         hit == cached # NoSpec
         failed == ~hit /\ content.format = "error"
         spec == IF hit THEN cached ELSE parse_spec_content(content)
         entry == IF ~hit /\ ~failed /\ cache_enabled
                  THEN cache_spec(cache[url], spec, now) ELSE cache[url]
     IN /\ cache' = [cache EXCEPT ![url] = entry]
        /\ loaded' = [url |-> url, cache_enabled |-> cache_enabled,
                      cache_ttl |-> cache_ttl, at |-> now,
                      before |-> cache[url], after |-> entry,
                      downloaded |-> ~hit, raised |-> failed,
                      spec |-> IF failed THEN NoSpec ELSE spec]
  /\ UNCHANGED <<authVars, eqVars, registryVars, proxyVars, factoryVars>>

\* clear_cache(url)
clear_cache(url) ==
  /\ cache' = [cache EXCEPT ![url] = NoEntry]
  /\ UNCHANGED loaded
  /\ UNCHANGED <<authVars, eqVars, registryVars, proxyVars, factoryVars>>

\* ------- config/settings.py, config/services.py, services/service_factory.py
\* None and the empty string are both false in "if not value"
None == ""
SessionTypes == {"inmemory", "mongo", "redis", "database"}
ArtifactTypes == {"inmemory", "s3", "local"}
DbUrls == {None, "sqlite:///./s.db", "oracle://db"}

\* the Settings objects pydantic accepts (the two types are Literal fields)
SettingsSpace ==
  [session_service_type : SessionTypes,
   memory_service_type : {"inmemory"},
   artifact_service_type : ArtifactTypes,
   mongo_url : {"", "mongodb://h"},
   mongo_db_name : {"", "sessions"},
   session_redis_url : {None, "redis://h"},
   session_database_url : DbUrls,
   s3_bucket_name : {"", "bkt"},
   artifact_local_base_path : {None, "./artifacts"}]

DefaultSettings ==
  [session_service_type |-> "inmemory", memory_service_type |-> "inmemory",
   artifact_service_type |-> "inmemory", mongo_url |-> "mongodb://h",
   mongo_db_name |-> "sessions", session_redis_url |-> "redis://h",
   session_database_url |-> None, s3_bucket_name |-> "bkt",
   artifact_local_base_path |-> "./artifacts"]

\* a configuration model instance, a service instance, a raised exception
Config(cls, type) == [tag |-> "config", cls |-> cls, type |-> type]
Service(cls) == [tag |-> "service", cls |-> cls]
Raised(exc) == [tag |-> exc, cls |-> "", type |-> ""]

\* DatabaseSessionConfig.validate_db_url
valid_db_url(v) == v \in {"sqlite:///./s.db"}

\* parse_session_config with a default in place of the errors
parse_session_config_fallback(service_type, mongo_url, mongo_db_name, redis_url, database_url) ==
  CASE service_type = "mongo" /\ mongo_url # None /\ mongo_db_name # None ->
         Config("MongoSessionConfig", "mongo")
    [] service_type = "redis" /\ redis_url # None -> Config("RedisSessionConfig", "redis")
    [] service_type = "database" /\ database_url # None /\ valid_db_url(database_url) ->
         Config("DatabaseSessionConfig", "database")
    [] OTHER -> Config("InMemorySessionConfig", "inmemory")

\* parse_session_config
parse_session_config(service_type, mongo_url, mongo_db_name, redis_url, database_url) ==
  CASE service_type = "inmemory" -> Config("InMemorySessionConfig", "inmemory")
    [] service_type = "mongo" ->
         IF mongo_url = None \/ mongo_db_name = None THEN Raised("ValueError")
         ELSE Config("MongoSessionConfig", "mongo")
    [] service_type = "redis" ->
         IF redis_url = None THEN Raised("ValueError")
         ELSE Config("RedisSessionConfig", "redis")
    [] service_type = "database" ->
         IF database_url = None \/ ~valid_db_url(database_url) THEN Raised("ValueError")
         ELSE Config("DatabaseSessionConfig", "database")
    [] OTHER -> Raised("ValueError")

parse_memory_config(service_type) ==
  IF service_type = "inmemory" THEN Config("InMemoryMemoryConfig", "inmemory")
  ELSE Raised("ValueError")

parse_artifact_config(service_type, bucket_name, local_base_path) ==
  CASE service_type = "inmemory" -> Config("InMemoryArtifactConfig", "inmemory")
    [] service_type = "s3" ->
         IF bucket_name = None THEN Raised("ValueError")
         ELSE Config("S3ArtifactConfig", "s3")
    [] service_type = "local" ->
         IF local_base_path = None THEN Raised("ValueError")
         ELSE Config("LocalFolderArtifactConfig", "local")
    [] OTHER -> Raised("ValueError")

\* a field of ServicesConfig: the member of the Union whose Literal type is
\* that of the instance passed
UnionMember(members, config) ==
  Config(CHOOSE cls \in DOMAIN members : members[cls] = config.type, config.type)

SessionServiceConfig ==
  [InMemorySessionConfig |-> "inmemory", MongoSessionConfig |-> "mongo",
   RedisSessionConfig |-> "redis", DatabaseSessionConfig |-> "database"]
MemoryServiceConfig == [InMemoryMemoryConfig |-> "inmemory"]
ArtifactServiceConfig ==
  [InMemoryArtifactConfig |-> "inmemory", S3ArtifactConfig |-> "s3",
   LocalFolderArtifactConfig |-> "local"]

\* Settings.get_services_config: the first exception raised ends the call
get_services_config(st) ==
  LET session_config == parse_session_config(st.session_service_type, st.mongo_url,
                          st.mongo_db_name, st.session_redis_url, st.session_database_url)
      memory_config == parse_memory_config(st.memory_service_type)
      artifact_config == parse_artifact_config(st.artifact_service_type,
                           st.s3_bucket_name, st.artifact_local_base_path)
  IN IF session_config.tag # "config" THEN [tag |-> session_config.tag]
     ELSE IF memory_config.tag # "config" THEN [tag |-> memory_config.tag]
     ELSE IF artifact_config.tag # "config" THEN [tag |-> artifact_config.tag]
     ELSE [tag |-> "config",
           session_service |-> UnionMember(SessionServiceConfig, session_config),
           memory_service |-> UnionMember(MemoryServiceConfig, memory_config),
           artifact_service |-> UnionMember(ArtifactServiceConfig, artifact_config)]

\* ServiceFactory.create_session_service
create_session_service(config, avail) ==
  CASE config.cls = "InMemorySessionConfig" -> Service("InMemorySessionService")
    [] config.cls = "MongoSessionConfig" ->
         IF ~avail.sessions THEN Raised("ImportError") ELSE Service("MongoSessionService")
    [] config.cls = "RedisSessionConfig" ->
         IF ~avail.sessions THEN Raised("ImportError") ELSE Service("RedisSessionService")
    [] config.cls = "DatabaseSessionConfig" -> Service("DatabaseSessionService")
    [] OTHER -> Raised("ValueError")

\* ServiceFactory.create_memory_service
create_memory_service(config) ==
  IF config.cls = "InMemoryMemoryConfig" THEN Service("InMemoryMemoryService")
  ELSE Raised("ValueError")

\* ServiceFactory.create_artifact_service
create_artifact_service(config, avail) ==
  CASE config.cls = "InMemoryArtifactConfig" -> Service("InMemoryArtifactService")
    [] config.cls = "S3ArtifactConfig" ->
         IF ~avail.artifacts THEN Raised("ImportError") ELSE Service("S3ArtifactService")
    [] config.cls = "LocalFolderArtifactConfig" ->
         IF ~avail.artifacts THEN Raised("ImportError")
         ELSE Service("LocalFolderArtifactService")
    [] OTHER -> Raised("ValueError")

NoServices == [tag |-> "none", session |-> "", memory |-> "", artifact |-> ""]
Failed(exc) == [tag |-> exc, session |-> "", memory |-> "", artifact |-> ""]

\* ServiceFactory.create_all_services
create_all_services(session_config, memory_config, artifact_config, avail) ==
  LET session_service == create_session_service(session_config, avail)
      memory_service == create_memory_service(memory_config)
      artifact_service == create_artifact_service(artifact_config, avail)
  IN IF session_service.tag # "service" THEN Failed(session_service.tag)
     ELSE IF memory_service.tag # "service" THEN Failed(memory_service.tag)
     ELSE IF artifact_service.tag # "service" THEN Failed(artifact_service.tag)
     ELSE [tag |-> "services", session |-> session_service.cls,
           memory |-> memory_service.cls, artifact |-> artifact_service.cls]

\* main.py at import: get_services_config, then create_all_services
create_services ==
  /\ services.tag = "none"
  /\ LET services_config == get_services_config(settings)
     IN services' = IF services_config.tag # "config" THEN Failed(services_config.tag)
                    ELSE create_all_services(services_config.session_service,
                                             services_config.memory_service,
                                             services_config.artifact_service, available)
  /\ UNCHANGED <<settings, available>>
  /\ UNCHANGED <<authVars, eqVars, registryVars, proxyVars, loaderVars>>

\* ------------------------------------------------------------------- Spec
\* main.py: the backend is selected from the settings; the startup event runs
\* init() and, when it fails, logs and lets the server start all the same. A
\* failed Mongo init leaves the collection without its unique indexes; a
\* failed SQL init leaves no table, so only the successful one is modelled.
EqInit ==
  /\ eq_store = [inmemory |-> InMemoryEmpty, sql |-> {}, mongo |-> {}]
  /\ eq_res = [inmemory |-> NotFound, sql |-> NotFound, mongo |-> NotFound]

\* ToolRegistry.__init__
RegistryInit ==
  /\ api_tools = NoTools
  /\ fastmcp_tools = NoTools
  /\ custom_tools = NoTools
  /\ proxy_handlers = NoTools
  /\ router = NoRouter
  /\ router_seq = 0
  /\ served = NoServed

AuthRest ==
  /\ users_by_id = EmptyDict
  /\ id_by_email = EmptyDict
  /\ id_by_username = EmptyDict
  /\ sql_users = {}
  /\ mongo_users = {}
  /\ now = 0
  /\ id_seq = 0
  /\ tokens = {}
  /\ reg = [p \in Procs |-> IdleCall]
  /\ resp = NoResponse
  /\ artifacts = {}

AuthInit ==
  /\ backend \in Backends
  /\ mongo_indexes \in (IF backend = "mongo" THEN BOOLEAN ELSE {TRUE})
  /\ AuthRest

\* no proxy handler has been constructed
ProxyInit ==
  /\ environ = {}
  /\ proxy = NoProxy
  /\ forwarded = NoForwarded
  /\ relayed = NoRelayed

\* SpecLoader.__init__ on an empty cache directory
LoaderInit ==
  /\ cache = [url \in SpecUrls |-> NoEntry]
  /\ loaded = NoLoaded

\* the default settings, both optional packages installed, nothing created
FactoryInit ==
  /\ settings = DefaultSettings
  /\ available = [sessions |-> TRUE, artifacts |-> TRUE]
  /\ services = NoServices

OtherInit == ProxyInit /\ LoaderInit /\ FactoryInit

Init == AuthInit /\ EqInit /\ RegistryInit /\ OtherInit

Next ==
  \/ \E p \in Procs, e \in Emails, u \in Usernames, pw \in Passwords :
       register_check_email(p, e, u, pw)
  \/ \E p \in Procs : register_check_username(p)
  \/ \E p \in Procs, m \in Micros : register_create(p, m)
  \/ \E i \in Identifiers, pw \in Passwords : login(i, pw)
  \/ logout
  \/ \E t \in Presentable : get_current_user_info(t)

Spec == Init /\ [][Next]_vars

\* Time, tokens and the protected routes: the same server, fewer distinct
\* registrations, and time passes
NextProtected ==
  \/ \E e \in Emails : register_check_email("p1", e, "bob", "secret1")
  \/ \E p \in Procs : register_check_username(p)
  \/ \E p \in Procs : register_create(p, 7)
  \/ \E i \in {"bob", "eve"}, pw \in Passwords : login(i, pw)
  \/ logout
  \/ \E t \in Presentable : get_current_user_info(t)
  \/ \E t \in Presentable, u \in PathUsers, e \in BOOLEAN, f \in Filenames :
       upload_file(t, u, e, f)
  \/ \E t \in Presentable, u \in PathUsers : get_artifacts_metadata(t, u)
  \/ \E t \in Presentable, u \in PathUsers : download_artifact(t, u)
  \/ Tick

\* one register call at a time is made here, so the unique indexes of the
\* Mongo collection are never put to the test: they are taken as created
InitProtected == Init /\ mongo_indexes

SpecProtected == InitProtected /\ [][NextProtected]_vars

\* ----------------------------------------------------------- SpecBackends
\* One AuthService per backend; the same call is made on all three.
eq_register_user(email, username, password, micros) ==
  /\ id_seq < MaxIds
  /\ \E o1 \in register_user("inmemory", eq_store.inmemory, TRUE, email, username,
                             password, id_seq + 1, datetime_now(now, micros)),
        o2 \in register_user("sql", eq_store.sql, TRUE, email, username,
                             password, id_seq + 1, datetime_now(now, micros)),
        o3 \in register_user("mongo", eq_store.mongo, mongo_indexes, email, username,
                             password, id_seq + 1, datetime_now(now, micros)) :
       /\ eq_store' = [inmemory |-> o1.store, sql |-> o2.store, mongo |-> o3.store]
       /\ eq_res' = [inmemory |-> o1.res, sql |-> o2.res, mongo |-> o3.res]
       /\ id_seq' = IF "user" \in {o1.res.tag, o2.res.tag, o3.res.tag}
                    THEN id_seq + 1 ELSE id_seq
  /\ UNCHANGED <<backend, mongo_indexes, storeVars, now, tokens, reg, resp, artifacts>>
  /\ UNCHANGED <<registryVars, otherVars>>

eq_authenticate_user(email_or_username, password) ==
  /\ \E r1 \in authenticate_user("inmemory", eq_store.inmemory, email_or_username, password),
        r2 \in authenticate_user("sql", eq_store.sql, email_or_username, password),
        r3 \in authenticate_user("mongo", eq_store.mongo, email_or_username, password) :
       eq_res' = [inmemory |-> r1, sql |-> r2, mongo |-> r3]
  /\ UNCHANGED <<authVars, eq_store, registryVars, otherVars>>

eq_get_user_by_id(user_id) ==
  /\ \E r1 \in get_user_by_id("inmemory", eq_store.inmemory, user_id),
        r2 \in get_user_by_id("sql", eq_store.sql, user_id),
        r3 \in get_user_by_id("mongo", eq_store.mongo, user_id) :
       eq_res' = [inmemory |-> r1, sql |-> r2, mongo |-> r3]
  /\ UNCHANGED <<authVars, eq_store, registryVars, otherVars>>

InitBackends ==
  /\ backend = "inmemory"
  /\ mongo_indexes \in BOOLEAN
  /\ AuthRest
  /\ EqInit
  /\ RegistryInit
  /\ OtherInit

NextBackends ==
  \/ \E e \in Emails, u \in Usernames, pw \in Passwords, m \in Micros :
       eq_register_user(e, u, pw, m)
  \/ \E i \in Identifiers, pw \in Passwords : eq_authenticate_user(i, pw)
  \/ \E i \in UserIds : eq_get_user_by_id(i)

SpecBackends == InitBackends /\ [][NextBackends]_vars

\* ----------------------------------------------------------- SpecRegistry
\* The tool registry of one process, its router and the requests it serves.
NextRegistry ==
  \/ \E n \in ToolNames, u \in Urls, e \in BOOLEAN : register_api_tool(n, u, e)
  \/ \E e \in BOOLEAN : register_fastmcp_tool("gh", "u1", e)
  \/ \E h \in CustomHandlers, e \in BOOLEAN : register_custom_tool("mcp", h, e)
  \/ get_tools_router
  \/ clear_tools
  \/ \E n \in ToolNames : get_tool_openapi_spec(n)
  \/ \E n \in ToolNames : tool_request(n)

InitRegistry ==
  /\ backend = "inmemory"
  /\ mongo_indexes = TRUE
  /\ AuthRest
  /\ EqInit
  /\ RegistryInit
  /\ OtherInit

SpecRegistry == InitRegistry /\ [][NextRegistry]_vars

\* -------------------------------------------------------------- SpecProxy
\* One proxy handler at a time, created in a process whose environment holds
\* any of the credential variables, and the requests it proxies.
NextProxy ==
  \/ \E kind \in {"api", "fastmcp"}, auth \in AuthConfigs : create_proxy_handler(kind, auth)
  \/ \E request \in ClientRequests, outcome \in UpstreamOutcomes :
       proxy_request(request, outcome)

InitProxy ==
  /\ backend = "inmemory"
  /\ mongo_indexes = TRUE
  /\ AuthRest
  /\ EqInit
  /\ RegistryInit
  /\ environ \in SUBSET EnvNames
  /\ proxy = NoProxy
  /\ forwarded = NoForwarded
  /\ relayed = NoRelayed
  /\ LoaderInit
  /\ FactoryInit

SpecProxy == InitProxy /\ [][NextProxy]_vars

\* ------------------------------------------------------------- SpecLoader
\* One SpecLoader, its cache directory, and time passing between the calls.
NextLoader ==
  \/ \E url \in SpecUrls, e \in BOOLEAN, ttl \in CacheTtls, content \in RemoteContents :
       load_spec(url, e, ttl, content)
  \/ \E url \in SpecUrls : clear_cache(url)
  \/ Tick

InitLoader == InitRegistry

SpecLoader == InitLoader /\ [][NextLoader]_vars

\* ----------------------------------------------------------- SpecServices
\* Start-up of the process under every accepted setting of the service
\* types and their parameters, with or without the optional packages.
NextServices == create_services

InitServices ==
  /\ backend = "inmemory"
  /\ mongo_indexes = TRUE
  /\ AuthRest
  /\ EqInit
  /\ RegistryInit
  /\ ProxyInit
  /\ LoaderInit
  /\ settings \in SettingsSpace
  /\ available \in [sessions : BOOLEAN, artifacts : BOOLEAN]
  /\ services = NoServices

SpecServices == InitServices /\ [][NextServices]_vars

\* ================================================================== claims
\* C1 (as claimed): a register request whose email or username is already
\* held by a stored user is answered 400 with one of the two messages.
C1_DuplicateRejectedWith400 ==
  (resp.op = "register" /\ resp.req.held) =>
     /\ resp.status = 400
     /\ resp.detail \in {"Email already registered", "Username already taken"}

\* the email and username indexes of the in-memory backend and its users
\* point at each other
IndexesConsistent ==
  /\ \A e \in DOMAIN id_by_email :
       /\ id_by_email[e] \in DOMAIN users_by_id
       /\ users_by_id[id_by_email[e]].email = e
  /\ \A n \in DOMAIN id_by_username :
       /\ id_by_username[n] \in DOMAIN users_by_id
       /\ users_by_id[id_by_username[n]].username = n
  /\ \A i \in DOMAIN users_by_id :
       /\ users_by_id[i].email \in DOMAIN id_by_email
       /\ id_by_email[users_by_id[i].email] = i
       /\ users_by_id[i].username \in DOMAIN id_by_username
       /\ id_by_username[users_by_id[i].username] = i

\* C2 (as claimed): in every reachable state no two stored users share an
\* email, no two share a username, and the in-memory indexes point at the
\* user that owns the key.
C2_EmailAndUsernameUnique ==
  /\ \A u, v \in StoredUsers :
       u # v => (u.email # v.email /\ u.username # v.username)
  /\ IndexesConsistent

\* C3 (as claimed): whatever sequence of register_user, authenticate_user
\* and get_user_by_id calls is made, the in-memory, SQL and Mongo backends
\* give the same result (the same user, None, or an error) for the last call.
C3_BackendsAgree ==
  /\ eq_res.inmemory = eq_res.sql
  /\ eq_res.sql = eq_res.mongo

\* The bearer token of the answered request was signed with the configured
\* secret, had not reached its exp when the request was handled, and names
\* a stored user.
TokenGood ==
  /\ resp.req.token.key = jwt_secret_key
  /\ resp.at < resp.req.token.exp * TicksPerSec
  /\ \E u \in StoredUsers : u.id = resp.req.token.user_id

ProtectedOps == {"me"} \cup ArtifactOps

ExpireTicks == jwt_access_token_expire_days * DaySecs * TicksPerSec

\* C5 (as claimed): a token issued at time t verifies to its user at every
\* time up to t + jwt_access_token_expire_days and to None at every later
\* time; a token signed with another key never verifies.
C5_ValidUpToIssuePlusExpiry ==
  /\ \A tok \in tokens :
       /\ now <= tok.issued_at + ExpireTicks => verify_token(tok, now) = tok.user_id
       /\ now > tok.issued_at + ExpireTicks => verify_token(tok, now) = NoId
  /\ \A f \in ForgedTokens : verify_token(f, now) = NoId

\* C5 (amended): the token verifies to its user at every time before its exp
\* claim, which is the issue time cut to whole seconds plus the configured
\* days, and to None from that time on, whatever calls were made in between;
\* a token signed with another key never verifies.
C5_ValidUntilExp ==
  /\ \A tok \in tokens :
       LET expiry == ToSeconds(tok.issued_at) * TicksPerSec + ExpireTicks
       IN /\ now < expiry => verify_token(tok, now) = tok.user_id
          /\ now >= expiry => verify_token(tok, now) = NoId
  /\ \A f \in ForgedTokens : verify_token(f, now) = NoId

\* a kept token has expired after a logout was answered
C5_Witness ==
  /\ resp.op = "logout"
  /\ \E tok \in tokens : verify_token(tok, now) = NoId /\ tok.issued_at < now

\* the stored users a login request names with their password
LoginOwners(r) ==
  {u \in StoredUsers : /\ r.req.identifier \in {u.email, u.username}
                       /\ verify_password(r.req.password, u.hashed_password)}

\* C6 (as claimed): a login with the email or the username of a stored user
\* and that user's password is answered 200 with that user and a token that
\* verifies to the user's id; any other login is answered 401.
C6_LoginRoundTrip ==
  [][(resp' # resp /\ resp'.op = "login") =>
       IF LoginOwners(resp') # {}
       THEN /\ resp'.status = 200
            /\ \E u \in LoginOwners(resp') :
                 /\ resp'.user = get_user_response(u)
                 /\ verify_token(resp'.token, resp'.at) = u.id
       ELSE /\ resp'.status = 401
            /\ resp'.detail = "Invalid credentials"]_vars

\* C7 (as claimed): /auth/me with a good token is answered 200 with the
\* information of the user the token names.
C7_MeReturnsUser ==
  (resp.op = "me" /\ TokenGood) =>
     /\ resp.status = 200
     /\ \E u \in StoredUsers : /\ u.id = resp.req.token.user_id
                               /\ resp.user = get_user_response(u)

\* C8: an artifact request whose authenticated user differs from the user id
\* of the path is answered 403 and invokes no method of the artifact service.
C8_OtherUserForbidden ==
  (resp.op \in ArtifactOps /\ resp.ran /\ resp.current_user # resp.req.path_user) =>
     /\ resp.status = 403
     /\ resp.svc = {}

\* so every invocation of the artifact service is for the caller's own id
C8_Witness ==
  /\ resp.op = "upload"
  /\ resp.ran
  /\ resp.current_user # resp.req.path_user
  /\ resp.status = 403
  /\ artifacts # {}

\* the tool types under which a name is registered
TypesOf(name) ==
  {k \in {"api", "fastmcp", "custom"} :
     name \in DOMAIN (CASE k = "api" -> api_tools
                        [] k = "fastmcp" -> fastmcp_tools
                        [] OTHER -> custom_tools)}

\* C9 (as claimed): a proxied request for a name registered under one tool
\* type is handled by a handler built from the config now registered under
\* that name.
C9_HandlerFromNewestConfig ==
  \A name \in ToolNames :
    (~router.is_none /\ Cardinality(TypesOf(name)) = 1) =>
      \A i \in 1 .. Len(router.routes) :
        router.routes[i].name = name =>
          /\ router.routes[i].kind = "api" =>
               router.routes[i].handler.config = api_tools[name]
          /\ router.routes[i].kind = "fastmcp" =>
               router.routes[i].handler.config = fastmcp_tools[name]

\* C10 (as claimed): no name is registered under more than one tool type, and
\* a proxied request is served by a handler of the type of its route.
C10_NameUniqueAcrossTypes ==
  /\ \A name \in ToolNames : Cardinality(TypesOf(name)) <= 1
  /\ (served.op = "proxy" /\ served.status = 200) =>
        /\ TypesOf(served.name) = {served.kind}
        /\ served.handler.type = served.kind

\* C11 (as claimed): GET /tools/{tool_name}/openapi.json for a name that is
\* not registered, or registered only with enabled=False, is answered 404.
C11_UnknownToolIs404 ==
  (served.op = "openapi" /\ served.kind = "none") => served.status = 404

\* the dictionary of one tool type
ToolsOf(kind) ==
  CASE kind = "api" -> api_tools
    [] kind = "fastmcp" -> fastmcp_tools
    [] OTHER -> custom_tools

\* C12: whenever the registry holds a router, that router has a proxy route
\* of a tool type for a name exactly when a tool of that type is registered
\* under the name with enabled=True (none for disabled tools, none for tools
\* removed by clear_tools); and the router object held is replaced only after
\* a registration or a clear, so consecutive get_tools_router calls with none
\* in between return the same object.
C12_RouterReflectsRegistry ==
  /\ [](~router.is_none =>
          \A kind \in {"api", "fastmcp", "custom"}, name \in ToolNames :
            (\E i \in 1 .. Len(router.routes) :
                router.routes[i].kind = kind /\ router.routes[i].name = name)
            <=> (name \in DOMAIN ToolsOf(kind) /\ ToolsOf(kind)[name].enabled))
  /\ [][(~router.is_none /\ ~router'.is_none) => router'.obj = router.obj]_vars

\* a second router was built after a change of the registry: it has a route
\* for an enabled tool while a disabled tool is registered as well
C12_Witness ==
  /\ ~router.is_none
  /\ router.obj >= 2
  /\ Len(router.routes) >= 1
  /\ \E name \in DOMAIN api_tools : ~api_tools[name].enabled

\* whether two bodies are the same text or the same JSON document
SameBody(a, b) ==
  \/ a = b
  \/ json_loads(a) # "JSONDecodeError" /\ json_loads(a) = json_loads(b)

\* C13 (as claimed): for every response the upstream returns to a request
\* proxied by an APIProxyHandler, proxy_request returns a response with the
\* upstream's status code and body, also when a body declared as JSON does
\* not parse.
C13_UpstreamResponseRelayed ==
  (relayed.kind = "api" /\ relayed.upstream.tag = "response") =>
     /\ relayed.result.cls \in {"JSONResponse", "Response", "StreamingResponse"}
     /\ relayed.result.status = relayed.upstream.status
     /\ SameBody(relayed.result.body, relayed.upstream.body)

\* C14 (as claimed): a request forwarded by a handler whose bearer or basic
\* credentials were in the environment at construction reaches the upstream
\* with the configured Authorization value and no other.
C14_OnlyConfiguredAuthorization ==
  (/\ forwarded.sent
   /\ proxy.auth.type \in {"bearer", "basic"}
   /\ "Authorization" \in DOMAIN proxy.auth_headers) =>
     WireValues(forwarded.headers, "Authorization") = {proxy.auth_headers["Authorization"]}

\* an entry that holds a spec file and metadata of age at most cache_ttl
FreshEntry(entry, cache_ttl, t) ==
  /\ entry.file.state # "absent"
  /\ entry.has_meta
  /\ ~Expired(entry, cache_ttl, t)

\* C15 (as claimed): with caching enabled, a load_spec call returns a cached
\* spec only if it was stored at most cache_ttl seconds earlier, downloads
\* nothing while an entry of age at most cache_ttl exists, and after a
\* download leaves in the cache exactly the downloaded spec, stamped with the
\* time of the call.
C15_CacheTimeToLive ==
  (loaded.url # "" /\ loaded.cache_enabled) =>
     /\ ~loaded.downloaded =>
          loaded.at - loaded.before.cached_at <= loaded.cache_ttl * TicksPerSec
     /\ FreshEntry(loaded.before, loaded.cache_ttl, loaded.at) => ~loaded.downloaded
     /\ (loaded.downloaded /\ ~loaded.raised) =>
          /\ loaded.after.file.state = "json"
          /\ json_load_file(loaded.after.file) = loaded.spec
          /\ loaded.after.has_meta
          /\ loaded.after.cached_at = loaded.at

\* the service classes the configured types name
SessionClass ==
  [inmemory |-> "InMemorySessionService", mongo |-> "MongoSessionService",
   redis |-> "RedisSessionService", database |-> "DatabaseSessionService"]
ArtifactClass ==
  [inmemory |-> "InMemoryArtifactService", s3 |-> "S3ArtifactService",
   local |-> "LocalFolderArtifactService"]

\* a parameter that the configured types require is missing or rejected
ParameterMissing ==
  \/ settings.session_service_type = "mongo"
       /\ (settings.mongo_url = None \/ settings.mongo_db_name = None)
  \/ settings.session_service_type = "redis" /\ settings.session_redis_url = None
  \/ settings.session_service_type = "database"
       /\ settings.session_database_url \notin {"sqlite:///./s.db"}
  \/ settings.artifact_service_type = "s3" /\ settings.s3_bucket_name = None
  \/ settings.artifact_service_type = "local" /\ settings.artifact_local_base_path = None

\* the optional package of a configured type is not installed
PackageAbsent ==
  \/ settings.session_service_type \in {"mongo", "redis"} /\ ~available.sessions
  \/ settings.artifact_service_type \in {"s3", "local"} /\ ~available.artifacts

\* C16: start-up either yields services of exactly the classes the configured
\* types name, or raises ValueError (only when a required parameter is missing
\* or rejected) or ImportError (only when the optional package is absent); it
\* never yields a service of another type.
C16_ServiceSelectionExact ==
  services.tag # "none" =>
     \/ /\ services.tag = "services"
        /\ services.session = SessionClass[settings.session_service_type]
        /\ services.memory = "InMemoryMemoryService"
        /\ services.artifact = ArtifactClass[settings.artifact_service_type]
        /\ ~ParameterMissing /\ ~PackageAbsent
     \/ services.tag = "ValueError" /\ ParameterMissing
     \/ services.tag = "ImportError" /\ PackageAbsent /\ ~ParameterMissing

\* a session type was configured without its parameter and start-up raised,
\* although the in-memory default would have been available
C16_Witness ==
  /\ services.tag = "ValueError"
  /\ settings.session_service_type = "redis"
  /\ settings.session_redis_url = None
  /\ settings.artifact_service_type = "inmemory"

====
